---- MODULE Spec2Model ----
(***************************************************************************)
(* Groundwater trend analysis of England, in four parts, each with the     *)
(* specification that runs it:                                             *)
(*   SpecQC   the three-stage quality filter (quality_control),            *)
(*   SpecCls  the trend classifier (classidication),                       *)
(*   SpecSp   the spatial scorer (SpatialHeterogeneity.py),                *)
(*   SpecDL   the loop over the stations of the download scripts.          *)
(* The quality filter is modelled on integer-valued daily series.  A       *)
(* daily series is a sequence of rows [date, value] with                   *)
(* strictly increasing dates.  Dates are day numbers; day 0 is a 1 October *)
(* and every year has DaysPerYear days (no leap day), so that the water    *)
(* year of day d is d \div DaysPerYear and it starts on day                *)
(* DaysPerYear * year.                                                     *)
(* Real-valued statistics (mean, standard deviation, median, RVI) are      *)
(* compared after clearing denominators, so every test is exact.           *)
(***************************************************************************)
EXTENDS Integers, Sequences, FiniteSets, TLC

\* ---------------------------------------------------------------- bounds
\* the number of days a short daily series may have a row on
NumDays == 6
\* the greatest length of a spiked daily series
MaxLong == 11

\* ------------------------------------------------------- program constants
\* the days of a year, as in int((last_year - first_year).days / 365 + 1)
DaysPerYear == 365
\* pandas' Series.std() divides by N - ddof with ddof = 1
Ddof == 1
\* threshold = 3 * std_deviation
ZThreshold == 3
\* RVI > 5
RviHigh == 5
\* RVI < 0.2, written 1 / RviLowInv
RviLowInv == 5

VARIABLES
    \* quality_control: its argument, the frame after each stage, its position
    gw_daily, gw_R3TCSV, gw_RVZ3, gw_RDRVI, qc_pc,
    \* classidication: its argument, the script variant, what it returned,
    \* its position ("call", "returned" or "raised")
    YMG, variant, result, cls_pc,
    \* a main script: the station table it read, the 'Annually sampling'
    \* directory (station number -> annual series), the loop index i, the rows
    \* written to its output csv, its position ("raised" once an exception
    \* has ended the script) and the exception that ended it
    data, files, loop_i, csv_rows, main_pc, exception,
    \* DownloadData.py: the cleaned daily series of the station at hand
    gd,
    \* SpatialHeterogeneity.py: the geodesic distance of the two stations, the
    \* index j of the inner loop and the locals of its body
    geodesic_km, loop_j, consistency, GWL_1, GWL_2, Trend_1, Trend_2, ts_s_1, ts_s_2,
    label,
    \* what classidication returned for each series it was called on so far
    \* (curve_fit has no random state: a second call on the same series
    \* returns what the first did), and the label each pair <<centre,
    \* neighbour>> was given when it was appended to consistency
    classified, scored

qcVars == <<gw_daily, gw_R3TCSV, gw_RVZ3, gw_RDRVI, qc_pc>>
clsVars == <<YMG, variant, result, cls_pc>>
mainVars == <<data, files, loop_i, csv_rows, main_pc, exception, gd>>
pairVars == <<geodesic_km, loop_j, consistency, GWL_1, GWL_2, Trend_1, Trend_2,
              ts_s_1, ts_s_2, label, classified, scored>>
vars == <<qcVars, clsVars, mainVars, pairVars>>

\* the variables of a component that a specification does not run
QCIdle ==
    /\ gw_daily = <<>>
    /\ gw_R3TCSV = <<>>
    /\ gw_RVZ3 = <<>>
    /\ gw_RDRVI = <<>>
    /\ qc_pc = "idle"

NoResult == [label |-> "none"]

ClsIdle ==
    /\ YMG = <<>>
    /\ variant = "none"
    /\ result = NoResult
    /\ cls_pc = "idle"

MainIdle ==
    /\ data = <<>>
    /\ files = <<>>
    /\ loop_i = 0
    /\ csv_rows = <<>>
    /\ main_pc = "idle"
    /\ exception = "none"
    /\ gd = <<>>

\* the locals of the pair loop before their first assignment
PairUnset ==
    /\ consistency = <<>>
    /\ GWL_1 = <<>>
    /\ GWL_2 = <<>>
    /\ Trend_1 = "unset"
    /\ Trend_2 = "unset"
    /\ ts_s_1 = <<0, 0>>
    /\ ts_s_2 = <<0, 0>>
    /\ label = "unset"
    /\ classified = <<>>
    /\ scored = <<>>

PairIdle == geodesic_km = 0 /\ loop_j = 0 /\ PairUnset

\* ---------------------------------------------------------------- helpers
\* f[lo] + ... + f[hi], by halves
RECURSIVE SumRange(_, _, _)
SumRange(f, lo, hi) ==
    IF lo > hi THEN 0
    ELSE IF lo = hi THEN f[lo]
    ELSE SumRange(f, lo, (lo + hi) \div 2) + SumRange(f, (lo + hi) \div 2 + 1, hi)

SumTo(f, n) == SumRange(f, 1, n)

\* df.loc[mask]: the rows whose mask is true, in order
Loc(s, mask) ==
    LET kept == SelectSeq([i \in 1..Len(s) |-> <<s[i], mask[i]>>],
                          LAMBDA p : p[2])
    IN [i \in 1..Len(kept) |-> kept[i][1]] \o <<>>

\* the sequence f with its elements evaluated once
AsSeq(f) == f \o <<>>

RECURSIVE SortedSeq(_)
SortedSeq(S) ==
    IF S = {} THEN <<>>
    ELSE LET m == CHOOSE x \in S : \A y \in S : x <= y
         IN <<m>> \o SortedSeq(S \ {m})

Abs(x) == IF x < 0 THEN -x ELSE x

Max(S) == CHOOSE x \in S : \A y \in S : y <= x
Min(S) == CHOOSE x \in S : \A y \in S : x <= y

\* ------------------------------------------------- stage 1: R3TCSV
\* gw_daily['count']: the number of value changes up to row i (run id)
count(s) ==
    AsSeq([i \in 1..Len(s) |->
              Cardinality({j \in 1..i : j = 1 \/ s[j].value # s[j - 1].value})])

\* a comparison with the row before, count.shift(1), in place of shift(2)
not_equal_shift1(s) ==
    LET c == count(s)
    IN AsSeq([i \in 1..Len(s) |-> i <= 1 \/ c[i] # c[i - 1]])

\* count.ne(count.shift(2)): the first two rows compare against NaN
not_equal(s) ==
    LET c == count(s)
    IN AsSeq([i \in 1..Len(s) |-> i <= 2 \/ c[i] # c[i - 2]])

cumulative_sum(s) ==
    LET ne == not_equal(s)
    IN AsSeq([i \in 1..Len(s) |-> Cardinality({j \in 1..i : ne[j]})])

\* cumulative_sum.duplicated(keep=False)
duplicates(s) ==
    LET cs == cumulative_sum(s)
    IN AsSeq([i \in 1..Len(s) |-> \E j \in 1..Len(s) : j # i /\ cs[j] = cs[i]])

R3TCSV(s) ==
    LET dup == duplicates(s)
    IN Loc(s, AsSeq([i \in 1..Len(s) |-> ~dup[i]]))

\* ------------------------------------------------- stage 2: RVZ3
\* N * (value - mean): the deviation scaled by the row count
deviation(s) ==
    LET total == SumTo([i \in 1..Len(s) |-> s[i].value], Len(s))
    IN AsSeq([i \in 1..Len(s) |-> Len(s) * s[i].value - total])

\* the sum over the rows of (N * deviation)^2
SumSquares(s) ==
    LET dev == deviation(s)
    IN SumTo([i \in 1..Len(s) |-> dev[i] * dev[i]], Len(s))

\* the divisor of a population standard deviation (ddof = 0)
StdDivisorPopulation(s) == Len(s)

\* deviation.std(): the divisor of the variance.  With no more than ddof
\* rows the standard deviation is NaN.
StdDivisor(s) == Len(s) - Ddof

\* deviation.abs() <= 3 * std_deviation for a scaled deviation dev, squared
\* and cleared of denominators; a comparison with NaN is false
WithinThreshold(dev, sumsq, divisor) ==
    /\ divisor > 0
    /\ divisor * dev * dev <= ZThreshold * ZThreshold * sumsq

\* the rows of deviation in place of those of gw_R3TCSV: each kept row
\* carries its scaled deviation as value
RVZ3Deviation(s) ==
    LET dev == deviation(s)
        sumsq == SumSquares(s)
        divisor == StdDivisor(s)
    IN Loc(AsSeq([i \in 1..Len(s) |-> [date |-> s[i].date, value |-> dev[i]]]),
           AsSeq([i \in 1..Len(s) |-> WithinThreshold(dev[i], sumsq, divisor)]))

RVZ3(s) ==
    LET dev == deviation(s)
        sumsq == SumSquares(s)
        divisor == StdDivisor(s)
    IN Loc(s, AsSeq([i \in 1..Len(s) |-> WithinThreshold(dev[i], sumsq, divisor)]))

\* ------------------------------------------------- stage 3: RDRVI
WaterYear(d) == d \div DaysPerYear
YearStart(y) == y * DaysPerYear

\* the index of resample('YS-OCT')...dropna(): the water years with a row
YearIndex(s) == SortedSeq({WaterYear(s[i].date) : i \in 1..Len(s)})

YearValues(s, y) == {s[i].value : i \in {j \in 1..Len(s) : WaterYear(s[j].date) = y}}

Max_Y(s) ==
    LET years == YearIndex(s)
    IN AsSeq([k \in 1..Len(years) |-> Max(YearValues(s, years[k]))])
Min_Y(s) ==
    LET years == YearIndex(s)
    IN AsSeq([k \in 1..Len(years) |-> Min(YearValues(s, years[k]))])
Range_Y(s) ==
    LET max == Max_Y(s)
        min == Min_Y(s)
    IN AsSeq([k \in 1..Len(max) |-> max[k] - min[k]])

\* twice np.median(Range_Y): the middle range, or the sum of the middle two
Median2(r) ==
    LET n == Len(r)
        sorted == SortSeq(r, LAMBDA a, b : a < b)
    IN IF n % 2 = 1 THEN 2 * sorted[(n + 1) \div 2]
       ELSE sorted[n \div 2] + sorted[n \div 2 + 1]

\* RVI > 5 or RVI < 0.2 with RVI = range / median.  A zero median gives
\* inf (removed) for a positive range and NaN (kept) for a zero range, which
\* is what the cleared comparison gives too.
RviOutside(range, median2) ==
    \/ 2 * range > RviHigh * median2
    \/ 2 * range * RviLowInv < median2

\* index >= Max_Y.index[k] and index <= Max_Y.index[k] + DateOffset(years=1)
remove_year(s, y) ==
    AsSeq([i \in 1..Len(s) |->
              s[i].date >= YearStart(y) /\ s[i].date <= YearStart(y) + DaysPerYear])

\* for k in range(len(Min_Y)): the years, their ranges and the median are
\* those of the stage's input, the rows are removed from the running frame
\* the loop with the range of year k and the median of the ranges taken
\* from the running frame at each step, in place of those computed up front
RECURSIVE RemoveLoopRecomputing(_, _, _, _, _)
RemoveLoopRecomputing(rows, years, ranges, med2, k) ==
    IF k > Len(years) THEN rows
    ELSE LET rm == remove_year(rows, years[k])
             left == YearValues(rows, years[k])
             next == IF /\ left # {}
                        /\ RviOutside(Max(left) - Min(left), Median2(Range_Y(rows)))
                     THEN Loc(rows, AsSeq([i \in 1..Len(rows) |-> ~rm[i]]))
                     ELSE rows
         IN RemoveLoopRecomputing(next, years, ranges, med2, k + 1)

RECURSIVE RemoveLoop(_, _, _, _, _)
RemoveLoop(rows, years, ranges, med2, k) ==
    IF k > Len(years) THEN rows
    ELSE LET rm == remove_year(rows, years[k])
             next == IF RviOutside(ranges[k], med2)
                     THEN Loc(rows, AsSeq([i \in 1..Len(rows) |-> ~rm[i]]))
                     ELSE rows
         IN RemoveLoop(next, years, ranges, med2, k + 1)

RDRVI(s) ==
    IF s = <<>> THEN s
    ELSE RemoveLoop(s, YearIndex(s), Range_Y(s), Median2(Range_Y(s)), 1)

quality_control(s) == RDRVI(RVZ3(R3TCSV(s)))

\* ------------------------------------------------------------- inputs
Vals == {0, 1, 6}
Spikes == {6, 17, 18, 30}

\* the daily series on the days of D with the values val[d]
SeriesOf(D, val) ==
    LET days == SortedSeq(D)
    IN [i \in 1..Len(days) |-> [date |-> days[i], value |-> val[days[i]]]]

\* the annual series on the years of D with the values val[y]
SeriesOfYears(D, val) ==
    LET years == SortedSeq(D)
    IN [i \in 1..Len(years) |-> [year |-> years[i], value |-> val[years[i]]]]

\* the days of the short series: 1 and 2 October of successive water years
SlotDay(k) == (k \div 2) * DaysPerYear + (k % 2)
SlotDays == {SlotDay(k) : k \in 0..(NumDays - 1)}

\* every series over the NumDays slot days, each day absent or a value
ShortSeries ==
    {SeriesOf(D, val) : <<D, val>> \in
        {<<D, val>> \in (SUBSET SlotDays) \X [SlotDays -> Vals] :
            \A d \in SlotDays : d \notin D => val[d] = 0}}

\* a record oscillating between 0 and 1 on n consecutive days, with the
\* reading of day p replaced by a spike x
SpikeSeries ==
    {[i \in 1..n |-> [date |-> i - 1,
                      value |-> IF i - 1 = p THEN x ELSE (i - 1) % 2]] :
        <<n, p, x>> \in {t \in (1..MaxLong) \X (0..(MaxLong - 1)) \X Spikes : t[2] < t[1]}}

\* a spiked record of MaxLong days, then three equal values at the start of
\* water year 1 and two rows, 0 and 6, in water year 2
MixedSeries ==
    {[i \in 1..(MaxLong + 5) |->
         IF i <= MaxLong
         THEN [date |-> i - 1, value |-> IF i - 1 = p THEN x ELSE (i - 1) % 2]
         ELSE IF i <= MaxLong + 3
         THEN [date |-> DaysPerYear + (i - MaxLong - 1), value |-> 1]
         ELSE [date |-> 2 * DaysPerYear + (i - MaxLong - 4),
               value |-> 6 * (i - MaxLong - 4)]] :
        <<p, x>> \in (0..(MaxLong - 1)) \X Spikes}

DailyInputs == ShortSeries \cup SpikeSeries \cup MixedSeries

\* --------------------------------------------------- quality filter spec
InitQC ==
    /\ gw_daily \in DailyInputs
    /\ gw_R3TCSV = <<>>
    /\ gw_RVZ3 = <<>>
    /\ gw_RDRVI = <<>>
    /\ qc_pc = "start"
    /\ ClsIdle
    /\ MainIdle
    /\ PairIdle

QualityControl ==
    /\ qc_pc = "start"
    /\ gw_R3TCSV' = R3TCSV(gw_daily)
    /\ gw_RVZ3' = RVZ3(R3TCSV(gw_daily))
    /\ gw_RDRVI' = RDRVI(RVZ3(R3TCSV(gw_daily)))
    /\ qc_pc' = "done"
    /\ UNCHANGED <<gw_daily, clsVars, mainVars, pairVars>>

NextQC == QualityControl

SpecQC == InitQC /\ [][NextQC]_vars

\* ================================================== the trend classifier
\* Classification.py and 1_Classification.py.  An annual series is a
\* sequence of rows [year, value] with strictly increasing water years.
\* Slopes and R2 are rationals <<numerator, denominator>> with a positive
\* denominator; <<0, 0>> stands for NaN, and every comparison with it is
\* false.  The names np, stats and curve_fit, which the scripts do not
\* import, are read as numpy, scipy.stats and scipy.optimize.curve_fit.

NaN == <<0, 0>>
RatLess(a, b) == a[1] * b[2] < b[1] * a[2]

RECURSIVE SeqOfSet(_)
SeqOfSet(S) ==
    IF S = {} THEN <<>>
    ELSE LET e == CHOOSE x \in S : TRUE IN <<e>> \o SeqOfSet(S \ {e})

\* np.median of a sequence of rationals
MedianRat(r) ==
    LET n == Len(r)
        sorted == SortSeq(r, RatLess)
        lo == sorted[n \div 2]
        hi == sorted[n \div 2 + 1]
    IN IF n = 0 THEN NaN
       ELSE IF n % 2 = 1 THEN sorted[(n + 1) \div 2]
       ELSE <<lo[1] * hi[2] + hi[1] * lo[2], 2 * lo[2] * hi[2]>>

\* the same counted from 0, without the + 1
sequence_from_zero(ymg) == [i \in 1..Len(ymg) |-> ymg[i].year - ymg[1].year]

\* YMG['sequence'] = ((index - index[0]).days / 365 + 1).astype(int)
sequence(ymg) == [i \in 1..Len(ymg) |-> ymg[i].year - ymg[1].year + 1]

\* stats.theilslopes(value, sequence).slope: the median of the slopes of all
\* pairs of rows
theilslopes(ymg) ==
    LET xs == sequence(ymg)
        pairs == SeqOfSet({q \in (1..Len(ymg)) \X (1..Len(ymg)) : q[1] < q[2]})
    IN MedianRat([k \in 1..Len(pairs) |->
                     <<ymg[pairs[k][2]].value - ymg[pairs[k][1]].value,
                       xs[pairs[k][2]] - xs[pairs[k][1]]>>])

\* YMG.drop(YMG.index[r]); the sequence column keeps the values of the full
\* series, which shifts every x alike and leaves the slope as it is
Drop(ymg, r) == [i \in 1..(Len(ymg) - 1) |-> IF i < r THEN ymg[i] ELSE ymg[i + 1]]

\* trendstable: one slope per removed row
trendstable(ymg) == [r \in 1..Len(ymg) |-> theilslopes(Drop(ymg, r))]

\* -------------------------------------------------------- suddenchange
ValueLow == -100
ValueHigh == 1000

AnnualValues(ymg) == {ymg[i].value : i \in 1..Len(ymg)}

\* curve_fit accepts the bounds ([1, 2, -100, -100], [sequence[-2],
\* sequence[-1], 1000, 1000]) and the first guess p0 = [2, sequence[-2],
\* round(min), round(max)]: every lower bound strictly below its upper bound
\* and p0 inside the bounds.  sequence.iloc[-2] needs two rows.
FitFeasible(ymg) ==
    LET n == Len(ymg)
        seq == sequence(ymg)
    IN /\ n >= 2
       /\ 1 < seq[n - 1]
       /\ 2 < seq[n]
       /\ 2 <= seq[n - 1]
       /\ ValueLow <= Min(AnnualValues(ymg))
       /\ Max(AnnualValues(ymg)) <= ValueHigh

\* the break positions the fit may return, besides the sequence values
MidKnot == 20

\* the parameter vectors <<x0, x1, y0, y1>> curve_fit may return: inside the
\* bounds, here on a grid (x on the sequence values and MidKnot, y on the
\* least and the greatest value of the series)
FitParams(ymg) ==
    LET n == Len(ymg)
        seq == sequence(ymg)
        xgrid == {seq[i] : i \in 1..n} \cup {MidKnot}
        ygrid == {Min(AnnualValues(ymg)), Max(AnnualValues(ymg))}
    IN {q \in xgrid \X xgrid \X ygrid \X ygrid :
           /\ 1 <= q[1] /\ q[1] <= seq[n - 1]
           /\ 2 <= q[2] /\ q[2] <= seq[n]}

\* what curve_fit does: it raises (ValueError on bounds or p0 it does not
\* accept, RuntimeError when the optimiser does not converge) or returns a
\* parameter vector
FitOutcomes(ymg) ==
    IF FitFeasible(ymg)
    THEN {[raised |-> FALSE, params |-> q] : q \in FitParams(ymg)}
             \cup {[raised |-> TRUE]}
    ELSE {[raised |-> TRUE]}

\* piecewise(x, x0, x1, y0, y1) minus y, times the length d of the ramp:
\* the breaks are swapped when x0 >= x1, the levels are not
Residual(x, y, q) ==
    LET lo == IF q[1] >= q[2] THEN q[2] ELSE q[1]
        hi == IF q[1] >= q[2] THEN q[1] ELSE q[2]
        d == IF hi > lo THEN hi - lo ELSE 1
    IN IF x <= lo THEN (q[3] - y) * d
       ELSE IF x <= hi THEN (x - lo) * (q[4] - q[3]) + (q[3] - y) * d
       ELSE (q[4] - y) * d

\* R2 = 1 - sum((y_t - yy)^2) / sum((yy - mean(yy))^2)
R2(ymg, q) ==
    LET n == Len(ymg)
        seq == sequence(ymg)
        d == IF q[1] = q[2] THEN 1 ELSE Abs(q[2] - q[1])
        res == [i \in 1..n |-> Residual(seq[i], ymg[i].value, q)]
        ssr == SumTo([i \in 1..n |-> res[i] * res[i]], n)
        sum == SumTo([i \in 1..n |-> ymg[i].value], n)
        sumsq == SumTo([i \in 1..n |-> ymg[i].value * ymg[i].value], n)
        sst == n * sumsq - sum * sum
    IN IF sst = 0 THEN NaN
       ELSE <<d * d * sst - n * ssr, d * d * sst>>

\* suddenchange: R2, windows, total_year, start_year, end_year from the
\* fitted parameters
suddenchange(ymg, q) ==
    LET n == Len(ymg)
        lo == IF q[1] < q[2] THEN q[1] ELSE q[2]
        hi == IF q[1] < q[2] THEN q[2] ELSE q[1]
        start == ymg[1].year + (lo - 1)
    IN [R2 |-> R2(ymg, q),
        windows |-> (start + (hi - lo)) - start + 1,
        total_year |-> ymg[n].year - ymg[1].year + 1,
        start_year |-> start,
        end_year |-> start + (hi - lo)]

\* ------------------------------------------------------ classidication
Variants == {"Classification", "1_Classification"}

\* the dead zone of the slope: 0.02 in Classification.py, 0.1 in
\* 1_Classification.py
SlopeThreshold(v) == IF v = "Classification" THEN <<1, 50>> ELSE <<1, 10>>
\* all(item < 0.1 ...) and all(item > -0.02 ...), the same in both
StableBelow == <<1, 10>>
StableAbove == <<-1, 50>>

Neg(a) == <<-a[1], a[2]>>
IsNaN(a) == a[2] = 0
Less(a, b) == ~IsNaN(a) /\ ~IsNaN(b) /\ RatLess(a, b)

UpStep == "Sudden upward change"
DownStep == "Sudden downward change"
NoTrend == "No trend"
UpSteady(v) == IF v = "Classification" THEN "Increasing" ELSE "Slow increasing"
DownSteady(v) == IF v = "Classification" THEN "Decreasing" ELSE "Slow decreasing"

\* the step-change test without its cap on the window
StepTestNoCap(sc) ==
    /\ sc.R2[2] > 0 /\ 10 * sc.R2[1] >= 7 * sc.R2[2]
    /\ 2 * sc.windows <= sc.total_year

\* pw_R2 >= 0.7 and windows / total_year <= 0.5 and windows <= 15
StepTest(sc) ==
    /\ ~IsNaN(sc.R2) /\ 10 * sc.R2[1] >= 7 * sc.R2[2]
    /\ 2 * sc.windows <= sc.total_year
    /\ sc.windows <= 15

\* all(item < 0.1 for item in ts_re)
AllStableBelow(ymg) ==
    \A r \in 1..Len(ymg) : Less(trendstable(ymg)[r], StableBelow)
\* all(item > -0.02 for item in ts_re)
AllStableAbove(ymg) ==
    \A r \in 1..Len(ymg) : Less(StableAbove, trendstable(ymg)[r])

\* the decision tree without the else branch that forces 'No trend': the
\* dead zone falls into the branch of the slope's sign
DecideBySign(ymg, v, step) ==
    LET slope == theilslopes(ymg)
    IN IF slope[1] < 0
       THEN IF step THEN UpStep
            ELSE IF AllStableBelow(ymg)
                 THEN UpSteady(v) ELSE NoTrend
       ELSE IF step THEN DownStep
            ELSE IF AllStableAbove(ymg)
                 THEN DownSteady(v) ELSE NoTrend

\* the decision tree, given the outcome step of the step-change test
Decide(ymg, v, step) ==
    LET slope == theilslopes(ymg)
    IN IF Less(slope, Neg(SlopeThreshold(v)))
       THEN IF step THEN UpStep
            ELSE IF AllStableBelow(ymg) THEN UpSteady(v) ELSE NoTrend
       ELSE IF Less(SlopeThreshold(v), slope)
       THEN IF step THEN DownStep
            ELSE IF AllStableAbove(ymg) THEN DownSteady(v) ELSE NoTrend
       ELSE NoTrend

\* the label, given the fitted parameters q
Label(ymg, v, q) == Decide(ymg, v, StepTest(suddenchange(ymg, q)))

\* return label, ts_s, pw_R2, windows, start_year, end_year
classidication(ymg, v, q) ==
    LET sc == suddenchange(ymg, q)
    IN [label |-> Label(ymg, v, q),
        slope |-> theilslopes(ymg),
        pw_R2 |-> sc.R2,
        windows |-> sc.windows,
        start_year |-> sc.start_year,
        end_year |-> sc.end_year]

\* ------------------------------------------------------------- inputs
MaxYears == 3
GapYear == 40

\* every annual series that starts in year 0 and has at least two rows, on
\* the years below MaxYears and a late year GapYear
AnnualInputs ==
    {SeriesOfYears(D \cup {0}, val) : <<D, val>> \in
        {<<D, val>> \in (SUBSET ((1..(MaxYears - 1)) \cup {GapYear}))
                          \X [(0..(MaxYears - 1)) \cup {GapYear} -> Vals] :
            /\ D # {}
            /\ \A y \in (1..(MaxYears - 1)) \cup {GapYear} : y \notin D => val[y] = 0}}

\* ------------------------------------------------------ classifier spec
InitCls ==
    /\ YMG \in AnnualInputs
    /\ variant \in Variants
    /\ result = NoResult
    /\ cls_pc = "call"
    /\ QCIdle
    /\ MainIdle
    /\ PairIdle

\* classidication(YMG) returns: the fit did
Classify ==
    /\ cls_pc = "call"
    /\ \E f \in FitOutcomes(YMG) :
          /\ ~f.raised
          /\ result' = classidication(YMG, variant, f.params)
    /\ cls_pc' = "returned"
    /\ UNCHANGED <<YMG, variant, qcVars, mainVars, pairVars>>

\* classidication(YMG) is left by the exception curve_fit raised: nothing in
\* suddenchange or classidication catches it
ClassifyRaises ==
    /\ cls_pc = "call"
    /\ \E f \in FitOutcomes(YMG) : f.raised
    /\ cls_pc' = "raised"
    /\ UNCHANGED <<YMG, variant, result, qcVars, mainVars, pairVars>>

NextCls == Classify \/ ClassifyRaises

SpecCls == InitCls /\ [][NextCls]_vars

\* ===================================================== claims: quality filter
\* the rows between i and j all carry the value of row i
SameRun(s, i, j) ==
    \A k \in (IF i <= j THEN i..j ELSE j..i) : s[k].value = s[i].value

\* the length of the maximal run of equal consecutive values around row i
RunLength(s, i) == Cardinality({j \in 1..Len(s) : SameRun(s, i, j)})

RowSet(s) == {s[i] : i \in 1..Len(s)}

\* C1: after stage 1 every row of a maximal run of 3 or more equal
\* consecutive values is gone (the first row of the run too) and every row of
\* a run of 1 or 2 is kept, in order.
C1_WholeRunRemoved ==
    qc_pc = "done" =>
        gw_R3TCSV = Loc(gw_daily,
                        [i \in 1..Len(gw_daily) |-> RunLength(gw_daily, i) < 3])

\* the range of water year y in s and twice the median of all yearly ranges
YearRange(s, y) == Max(YearValues(s, y)) - Min(YearValues(s, y))
AllRanges2(s) ==
    Median2([k \in 1..Len(YearIndex(s)) |-> YearRange(s, YearIndex(s)[k])])

\* range / median < 0.2 or > 5, for twice the median; a zero range over a
\* zero median is not a number and is neither
RviBeyond(range, median2) == 10 * range < median2 \/ 2 * range > 5 * median2

\* C2: after stage 3 a row of the stage-2 output is gone exactly when the
\* RVI of its own water year is below 0.2 or above 5; a year inside the
\* bound loses no row, its 1 October included.
C2_OnlyOutsideYearsRemoved ==
    qc_pc = "done" =>
        \A i \in 1..Len(gw_RVZ3) :
            LET y == WaterYear(gw_RVZ3[i].date)
            IN RviBeyond(YearRange(gw_RVZ3, y), AllRanges2(gw_RVZ3))
                   <=> gw_RVZ3[i] \notin RowSet(gw_RDRVI)

\* |v - m| <= 3 s for row i of s, with s^2 = sum (v - m)^2 / (N - ddof),
\* from the sums of the values and of their squares
WithinStd(s, i, ddof) ==
    LET n == Len(s)
        sum == SumTo([j \in 1..n |-> s[j].value], n)
        sumsq == SumTo([j \in 1..n |-> s[j].value * s[j].value], n)
        d == n * s[i].value - sum
    IN /\ n > ddof
       /\ (n - ddof) * d * d <= 9 * n * (n * sumsq - sum * sum)

\* C3 as amended: the stage-2 output is exactly the stage-1 rows within 3
\* sample standard deviations (divisor N - 1) of the mean of the whole
\* stage-1 output, filtered in a single pass; a single row has no standard
\* deviation and is dropped.
C3_SampleStdSinglePass ==
    qc_pc = "done" =>
        gw_RVZ3 = Loc(gw_R3TCSV,
                      [i \in 1..Len(gw_R3TCSV) |-> WithinStd(gw_R3TCSV, i, 1)])

\* C3 as stated: the same with the population standard deviation (divisor N)
C3_PopulationStd ==
    qc_pc = "done" =>
        gw_RVZ3 = Loc(gw_R3TCSV,
                      [i \in 1..Len(gw_R3TCSV) |-> WithinStd(gw_R3TCSV, i, 0)])

\* stage 2 removed an outlier from a series and kept the other rows
C3_Witness ==
    /\ qc_pc = "done"
    /\ Len(gw_RVZ3) >= 2
    /\ Len(gw_RVZ3) < Len(gw_R3TCSV)

\* the series meets the three bounds: no run of 3, no row beyond 3 sample
\* standard deviations, no water year with an RVI outside [0.2, 5]
Clean(s) ==
    /\ \A i \in 1..Len(s) : RunLength(s, i) < 3
    /\ \A i \in 1..Len(s) : WithinStd(s, i, 1)
    /\ \A k \in 1..Len(YearIndex(s)) :
           ~RviBeyond(YearRange(s, YearIndex(s)[k]), AllRanges2(s))

\* C10 as stated: the filter applied to its own output removes nothing
C10_Idempotent ==
    qc_pc = "done" => quality_control(gw_RDRVI) = gw_RDRVI

\* C10 as amended: a series that already meets the three bounds is a fixed
\* point, the filter returns exactly its rows (so a second run is a no-op
\* whenever the first run's output meets the bounds)
C10_CleanSeriesIsFixedPoint ==
    (qc_pc = "done" /\ Clean(gw_daily)) => gw_RDRVI = gw_daily

\* the filter ran on a series that meets the three bounds, with a run of two
\* equal values and three water years of differing, positive ranges
C10_Witness ==
    /\ qc_pc = "done"
    /\ Clean(gw_daily)
    /\ \E i \in 1..Len(gw_daily) : RunLength(gw_daily, i) = 2
    /\ Len(YearIndex(gw_daily)) >= 3
    /\ \A k \in 1..Len(YearIndex(gw_daily)) :
           YearRange(gw_daily, YearIndex(gw_daily)[k]) > 0
    /\ \E k \in 1..Len(YearIndex(gw_daily)) :
           YearRange(gw_daily, YearIndex(gw_daily)[k]) > 1
    /\ gw_RDRVI = gw_daily

\* a is b with some rows left out: every row of a is a row of b, date and
\* value, and the rows of a come in the order they have in b
IsSubsequence(a, b) ==
    /\ \A i \in 1..Len(a) : a[i] \in RowSet(b)
    /\ \A i \in 1..Len(a) : \A j \in 1..Len(a) :
           i < j => \E k \in 1..Len(b) : \E l \in 1..Len(b) :
                        k < l /\ b[k] = a[i] /\ b[l] = a[j]
    /\ Len(a) <= Len(b)

\* C11: the frame after each of the three stages is its input with some rows
\* left out, and so is the result of quality_control: no row is added or
\* altered, the order is kept, the length does not grow.
C11_OutputIsSubsequence ==
    qc_pc = "done" =>
        /\ IsSubsequence(gw_R3TCSV, gw_daily)
        /\ IsSubsequence(gw_RVZ3, gw_R3TCSV)
        /\ IsSubsequence(gw_RDRVI, gw_RVZ3)
        /\ IsSubsequence(gw_RDRVI, gw_daily)

\* each of the three stages removed a row and several rows remain
C11_Witness ==
    /\ qc_pc = "done"
    /\ Len(gw_R3TCSV) < Len(gw_daily)
    /\ Len(gw_RVZ3) < Len(gw_R3TCSV)
    /\ Len(gw_RDRVI) < Len(gw_RVZ3)
    /\ Len(gw_RDRVI) >= 2

\* the water years of the stage-2 output that the loop decides to remove,
\* by the ranges and the median of the stage-2 output
OutsideYears(s) ==
    {y \in {WaterYear(s[i].date) : i \in 1..Len(s)} :
        RviBeyond(YearRange(s, y), AllRanges2(s))}

\* the orders in which n years can be visited
VisitOrders(n) ==
    {f \in [1..n -> 1..n] : \A a \in 1..n : \A b \in 1..n : f[a] = f[b] => a = b}

\* the loop of stage 3 over the years of s taken in the order f
VisitedInOrder(s, f) ==
    RemoveLoop(s, [k \in 1..Len(f) |-> YearIndex(s)[f[k]]],
               [k \in 1..Len(f) |-> Range_Y(s)[f[k]]], Median2(Range_Y(s)), 1)

\* C15: the rows stage 3 removes are those in the windows of the years whose
\* RVI, by the yearly max/min and the median of the ranges of the stage-2
\* output, is outside the bound, whatever was removed earlier in the loop;
\* and visiting the years in any other order gives the same frame.
C15_FixedMedianAnyOrder ==
    qc_pc = "done" =>
        /\ gw_RDRVI = Loc(gw_RVZ3, [i \in 1..Len(gw_RVZ3) |->
               \A y \in OutsideYears(gw_RVZ3) :
                  \/ gw_RVZ3[i].date < YearStart(y)
                  \/ gw_RVZ3[i].date > YearStart(y) + DaysPerYear])
        /\ \A f \in VisitOrders(Len(YearIndex(gw_RVZ3))) :
               VisitedInOrder(gw_RVZ3, f) = gw_RDRVI

\* stage 3 removed two years and kept one, and the later of the two removed
\* years is inside the bound by the median of the ranges left after the
\* first removal
C15_Witness ==
    /\ qc_pc = "done"
    /\ Cardinality(OutsideYears(gw_RVZ3)) = 2
    /\ Len(YearIndex(gw_RVZ3)) = 3
    /\ gw_RDRVI # <<>>
    /\ LET first == Min(OutsideYears(gw_RVZ3))
           last == Max(OutsideYears(gw_RVZ3))
           rest == SelectSeq(gw_RVZ3, LAMBDA r : WaterYear(r.date) # first)
       IN /\ YearValues(gw_RDRVI, last) = {}
          /\ ~RviBeyond(YearRange(rest, last), AllRanges2(rest))

\* ======================================================= claims: classifier
FiveLabels(v) == {UpStep, UpSteady(v), DownStep, DownSteady(v), NoTrend}

\* the step-change test on the metrics classidication returned
ReturnedStep ==
    /\ result.pw_R2[2] > 0
    /\ 10 * result.pw_R2[1] >= 7 * result.pw_R2[2]
    /\ 2 * result.windows <= YMG[Len(YMG)].year - YMG[1].year + 1
    /\ result.windows <= 15

SlopeBelowDeadZone ==
    result.slope[2] > 0 /\
        result.slope[1] * SlopeThreshold(variant)[2]
            < -SlopeThreshold(variant)[1] * result.slope[2]
SlopeAboveDeadZone ==
    result.slope[2] > 0 /\
        result.slope[1] * SlopeThreshold(variant)[2]
            > SlopeThreshold(variant)[1] * result.slope[2]

\* every leave-one-out slope is below 0.1, resp. above -0.02
LooAllBelow ==
    \A r \in 1..Len(YMG) :
        LET s == theilslopes(Drop(YMG, r)) IN s[2] > 0 /\ 10 * s[1] < s[2]
LooAllAbove ==
    \A r \in 1..Len(YMG) :
        LET s == theilslopes(Drop(YMG, r)) IN s[2] > 0 /\ 50 * s[1] > -s[2]

\* C4: outside the dead zone the label is the step-change label of the
\* branch exactly when R2 >= 0.7, windows / total_year <= 0.5 and
\* windows <= 15; failing that it is the steady label of the branch exactly
\* when all leave-one-out slopes pass the stability threshold, and
\* 'No trend' otherwise.
C4_DecisionTree ==
    cls_pc = "returned" =>
        /\ SlopeBelowDeadZone =>
              /\ result.label = UpStep <=> ReturnedStep
              /\ ~ReturnedStep =>
                    /\ result.label = UpSteady(variant) <=> LooAllBelow
                    /\ ~LooAllBelow => result.label = NoTrend
        /\ SlopeAboveDeadZone =>
              /\ result.label = DownStep <=> ReturnedStep
              /\ ~ReturnedStep =>
                    /\ result.label = DownSteady(variant) <=> LooAllAbove
                    /\ ~LooAllAbove => result.label = NoTrend

\* a falling series failed the step-change test on the window cap alone and,
\* one leave-one-out slope being unstable, got 'No trend'
C4_Witness ==
    /\ cls_pc = "returned"
    /\ SlopeAboveDeadZone
    /\ result.windows > 15
    /\ 2 * result.windows <= YMG[Len(YMG)].year - YMG[1].year + 1
    /\ 10 * result.pw_R2[1] >= 7 * result.pw_R2[2]
    /\ ~LooAllAbove
    /\ result.label = NoTrend

\* C5: inside the dead zone the label is 'No trend' whatever the fit
\* returned; an upward label needs slope < -threshold, a downward label
\* slope > +threshold; the label is one of the five.
C5_DeadZoneAndSigns ==
    cls_pc = "returned" =>
        /\ (~SlopeBelowDeadZone /\ ~SlopeAboveDeadZone) => result.label = NoTrend
        /\ result.label \in {UpStep, UpSteady(variant)} => SlopeBelowDeadZone
        /\ result.label \in {DownStep, DownSteady(variant)} => SlopeAboveDeadZone
        /\ result.label \in FiveLabels(variant)

\* a series with a non-zero slope inside the dead zone got 'No trend'
\* although the fit it returned passes the step-change test
C5_Witness ==
    /\ cls_pc = "returned"
    /\ result.slope[1] # 0
    /\ ~SlopeBelowDeadZone /\ ~SlopeAboveDeadZone
    /\ ReturnedStep
    /\ result.label = NoTrend

\* C9: a fit that is given degenerate bounds is caught inside the
\* classifier: no exception leaves classidication.
C9_FitFailureCaught ==
    ~(cls_pc = "raised" /\ ~FitFeasible(YMG))

\* ===================================================== the spatial scorer
\* SpatialHeterogeneity.py and 2_SpatialHeterogeneity.py, whose loops are
\* the same.  data is the station table after the filter of lines 19-20, a
\* sequence of rows [No, lat, long, aquifer] with lat and long in hundredths
\* of a degree; files[No] is the annual series read_csv(No) returns.  The
\* distance geopy's geodesic gives for the two stations is an input.  Both
\* scripts import classidication from Classification.py.

\* the rows of every persisted annual series
NumYears == 10

\* lat[i] - 0.15 < lat < lat[i] + 0.15, in hundredths of a degree
BoxLat == 15
\* long[i] - 0.25 < long < long[i] + 0.25
BoxLong == 25
\* distance_km <= 15
MaxKm == 15
\* len(GWL_1) > 8 and len(GWL_2) > 8
MinOverlap == 8

Unallocated == "Unallocated to aquifers"

\* annual depths by water year: steady, flat, a step, and a swinging series
\* whose slope is outside the dead zone and not stable
Swing == <<0, 9, 10, 9, 0, 5, 1, 5, 10>>
Shapes == {"rise", "fall", "flat", "step", "swing"}
ShapeValue(shape, y) ==
    CASE shape = "rise" -> 10 + 2 * y
      [] shape = "fall" -> 40 - 2 * y
      [] shape = "flat" -> 20 + (y % 2)
      [] shape = "step" -> IF y < 5 THEN 0 ELSE 10
      [] shape = "swing" -> Swing[((y + 8) % 9) + 1]

\* the series of NumYears successive water years from year s on
PersistedSeries ==
    {[k \in 1..NumYears |-> [year |-> s + k - 1,
                             value |-> ShapeValue(shape, s + k - 1)]] :
        <<shape, s>> \in Shapes \X (0..2)}

\* where station 2 lies from station 1, and the aquifers of the two
Placements == {<<14, 24>>, <<15, 0>>, <<0, 25>>}
Distances == {15, 16}
AquiferPairs == {<<"Chalk", "Chalk">>, <<"Chalk", "Limestone">>,
                 <<Unallocated, Unallocated>>}

StationTables ==
    {<<[No |-> 1, lat |-> 5100, long |-> -100, aquifer |-> a[1]],
       [No |-> 2, lat |-> 5100 + p[1], long |-> p[2] - 100, aquifer |-> a[2]]>> :
        <<p, a>> \in Placements \X AquiferPairs}

\* a table of three stations of one aquifer, each in the box of the others
TripleTables ==
    {<<[No |-> 1, lat |-> 5100, long |-> -100, aquifer |-> "Chalk"],
       [No |-> 2, lat |-> 5105, long |-> -100, aquifer |-> "Chalk"],
       [No |-> 3, lat |-> 5110, long |-> -100, aquifer |-> "Chalk"]>>}

\* their series: station n starts in water year n - 1, so that stations 1
\* and 3 have MinOverlap years in common and the other pairs one more
TripleShapes == {"rise", "fall", "swing"}
TripleFiles ==
    {[n \in 1..3 |-> [k \in 1..NumYears |->
                         [year |-> n + k - 2,
                          value |-> ShapeValue(shape[n], n + k - 2)]]] :
        shape \in [1..3 -> TripleShapes]}

\* data[(data['No'] != No[i]) & (lat within the box) & (long within the box)];
\* the coordinates are whole hundredths of a degree and compared exactly
ini_select(c) ==
    SelectSeq(data, LAMBDA r :
        /\ r.No # data[c].No
        /\ r.lat > data[c].lat - BoxLat /\ r.lat < data[c].lat + BoxLat
        /\ r.long > data[c].long - BoxLong /\ r.long < data[c].long + BoxLong)

\* GWL[(GWL.index >= start) & (GWL.index <= end)]
Restrict(gwl, start, end) ==
    SelectSeq(gwl, LAMBDA r : r.year >= start /\ r.year <= end)

\* the common period of two series
CommonStart(g1, g2) == Max({g1[1].year, g2[1].year})
CommonEnd(g1, g2) == Min({g1[Len(g1)].year, g2[Len(g2)].year})

\* the outcomes the step-change test may have on a series: one per outcome
\* of the fit that does not raise
StepOutcomes(ymg) ==
    {StepTest(suddenchange(ymg, f.params)) :
        f \in {g \in FitOutcomes(ymg) : ~g.raised}}

\* the tuples classidication may return for a series, cut down to the two
\* entries the scorer reads: the label and ts_s[0], the slope
Classifications(ymg) ==
    {[label |-> Decide(ymg, "Classification", step), slope |-> theilslopes(ymg)] :
        step \in StepOutcomes(ymg)}

\* a / b > 0 in floating point: a division by zero gives inf or nan, and
\* no comparison with nan is true
QuotientPositive(a, b) ==
    /\ ~IsNaN(a) /\ ~IsNaN(b)
    /\ IF b[1] = 0 THEN a[1] > 0 ELSE a[1] * b[1] > 0

\* the rule that tests the label of the centre only
AgreeCentreOnly(t1, t2, s1, s2) ==
    IF t1 = NoTrend \/ QuotientPositive(s1, s2)
    THEN "consistent" ELSE "inconsistent"

\* Trend_1 == 'No trend' or Trend_2 == 'No trend' or ts_s_1[0]/ts_s_2[0] > 0
Agree(t1, t2, s1, s2) ==
    IF t1 = NoTrend \/ t2 = NoTrend \/ QuotientPositive(s1, s2)
    THEN "consistent" ELSE "inconsistent"

InitSp ==
    /\ \/ data \in StationTables /\ files \in [{1, 2} -> PersistedSeries]
       \/ data \in TripleTables /\ files \in TripleFiles
    /\ geodesic_km \in Distances
    /\ loop_i = 1
    /\ csv_rows = <<>>
    /\ main_pc = "pairs"
    /\ exception = "none"
    /\ gd = <<>>
    /\ PairUnset
    /\ loop_j = 1
    /\ QCIdle
    /\ ClsIdle

\* the neighbour of this iteration and the tests of lines 47-49
Neighbour == ini_select(loop_i)[loop_j]
Selected ==
    /\ geodesic_km <= MaxKm
    /\ data[loop_i].aquifer # Unallocated
    /\ data[loop_i].aquifer = Neighbour.aquifer

\* GWL_1 restricted again for a second neighbour, not read anew
Window_1Leftover ==
    LET centre == IF loop_j > 1 THEN GWL_1 ELSE files[data[loop_i].No]
    IN Restrict(centre, CommonStart(centre, files[Neighbour.No]),
                CommonEnd(centre, files[Neighbour.No]))

\* the two series restricted to their common period
Window_1 ==
    Restrict(files[data[loop_i].No],
             CommonStart(files[data[loop_i].No], files[Neighbour.No]),
             CommonEnd(files[data[loop_i].No], files[Neighbour.No]))
Window_2 ==
    Restrict(files[Neighbour.No],
             CommonStart(files[data[loop_i].No], files[Neighbour.No]),
             CommonEnd(files[data[loop_i].No], files[Neighbour.No]))

InPairLoop ==
    /\ main_pc = "pairs"
    /\ loop_i <= Len(data)
    /\ loop_j <= Len(ini_select(loop_i))

\* one pass of the loop over j that does not reach the classifier
SkipPair ==
    /\ InPairLoop
    /\ \/ /\ ~Selected
          /\ GWL_1' = files[data[loop_i].No]
          /\ UNCHANGED GWL_2
       \/ /\ Selected
          /\ ~(Len(Window_1) > MinOverlap /\ Len(Window_2) > MinOverlap)
          /\ GWL_1' = Window_1
          /\ GWL_2' = Window_2
    /\ loop_j' = loop_j + 1
    /\ UNCHANGED <<consistency, Trend_1, Trend_2, ts_s_1, ts_s_2, label>>
    /\ UNCHANGED <<classified, scored>>
    /\ UNCHANGED <<geodesic_km, mainVars, qcVars, clsVars>>

\* what classidication may return for a series: what it returned before, if
\* it was called on the series before
Returns(ymg) ==
    IF ymg \in DOMAIN classified THEN {classified[ymg]} ELSE Classifications(ymg)

\* one pass of the loop over j that classifies both windows and labels the
\* pair
ScorePair ==
    /\ InPairLoop
    /\ Selected
    /\ Len(Window_1) > MinOverlap /\ Len(Window_2) > MinOverlap
    /\ LET cs1 == Returns(Window_1)
           cs2 == Returns(Window_2)
       IN \E c1 \in cs1, c2 \in cs2 :
             /\ Window_1 = Window_2 => c1 = c2
             /\ classified' = (Window_1 :> c1) @@ (Window_2 :> c2) @@ classified
             /\ scored' = (<<data[loop_i].No, Neighbour.No>> :>
                               Agree(c1.label, c2.label, c1.slope, c2.slope))
                           @@ scored
             /\ Trend_1' = c1.label
             /\ ts_s_1' = c1.slope
             /\ Trend_2' = c2.label
             /\ ts_s_2' = c2.slope
             /\ label' = Agree(c1.label, c2.label, c1.slope, c2.slope)
             /\ consistency' =
                    Append(consistency, Agree(c1.label, c2.label, c1.slope, c2.slope))
    /\ GWL_1' = Window_1
    /\ GWL_2' = Window_2
    /\ loop_j' = loop_j + 1
    /\ UNCHANGED <<geodesic_km, mainVars, qcVars, clsVars>>

\* a pass in which classidication raises: the exception ends the script
ScorePairRaises ==
    /\ InPairLoop
    /\ Selected
    /\ Len(Window_1) > MinOverlap /\ Len(Window_2) > MinOverlap
    /\ \E w \in {Window_1, Window_2} :
           /\ w \notin DOMAIN classified
           /\ \E f \in FitOutcomes(w) : f.raised
    /\ main_pc' = "raised"
    /\ exception' = "curve_fit"
    /\ GWL_1' = Window_1
    /\ GWL_2' = Window_2
    /\ UNCHANGED <<data, files, loop_i, csv_rows, gd>>
    /\ UNCHANGED <<geodesic_km, loop_j, consistency, Trend_1, Trend_2, ts_s_1,
                   ts_s_2, label, classified, scored>>
    /\ UNCHANGED <<qcVars, clsVars>>

CountOf(s, x) == Cardinality({k \in 1..Len(s) : s[k] = x})

\* the end of the loop over j: the row of the centre, then the next centre
WriteRow ==
    /\ main_pc = "pairs"
    /\ loop_i <= Len(data)
    /\ loop_j > Len(ini_select(loop_i))
    /\ csv_rows' = Append(csv_rows,
                          <<data[loop_i].No, Len(consistency),
                            CountOf(consistency, "consistent"),
                            CountOf(consistency, "inconsistent")>>)
    /\ loop_i' = loop_i + 1
    /\ loop_j' = 1
    /\ consistency' = <<>>
    /\ main_pc' = IF loop_i = Len(data) THEN "done" ELSE "pairs"
    /\ UNCHANGED <<data, files, exception, gd>>
    /\ UNCHANGED <<geodesic_km, GWL_1, GWL_2, Trend_1, Trend_2, ts_s_1, ts_s_2,
                   label, classified, scored>>
    /\ UNCHANGED <<qcVars, clsVars>>

NextSp == SkipPair \/ ScorePair \/ ScorePairRaises \/ WriteRow

SpecSp == InitSp /\ [][NextSp]_vars

\* ================================================== claims: spatial scorer
\* C6: a pair that was evaluated is 'consistent' exactly when one of the two
\* restricted-window labels is 'No trend' or the product of the two robust
\* slopes is positive, and 'inconsistent' otherwise.
C6_AgreementRule ==
    label # "unset" =>
        /\ label \in {"consistent", "inconsistent"}
        /\ label = "consistent" <=>
              \/ Trend_1 = NoTrend
              \/ Trend_2 = NoTrend
              \/ ts_s_1[2] > 0 /\ ts_s_2[2] > 0 /\ ts_s_1[1] * ts_s_2[1] > 0

\* two stations with a trend each, of opposite signs, were found inconsistent
C6_Witness ==
    /\ label = "inconsistent"
    /\ Trend_1 # NoTrend /\ Trend_2 # NoTrend
    /\ ts_s_1[1] * ts_s_2[1] < 0

\* the station numbers of the table
Numbers == {data[k].No : k \in 1..Len(data)}

\* the neighbour the loop over j has just dealt with, and whether it passed
\* the tests of lines 47-49
LastNeighbour == ini_select(loop_i)[loop_j - 1]
LastSelected ==
    /\ geodesic_km <= MaxKm
    /\ data[loop_i].aquifer # Unallocated
    /\ data[loop_i].aquifer = LastNeighbour.aquifer

\* C16: when the script has run through, a pair was labelled with A as the
\* centre exactly if it was labelled with B as the centre, and with the same
\* label; and after each pass of the loop over j, GWL_1 is the centre's
\* persisted series, restricted to the period it has in common with that
\* pass's neighbour alone if the neighbour passed the distance and aquifer
\* tests.
C16_SymmetricScoring ==
    /\ main_pc = "done" =>
           \A a \in Numbers : \A b \in Numbers :
               /\ <<a, b>> \in DOMAIN scored <=> <<b, a>> \in DOMAIN scored
               /\ <<a, b>> \in DOMAIN scored => scored[<<a, b>>] = scored[<<b, a>>]
    /\ (main_pc = "pairs" /\ loop_j > 1) =>
           LET full == files[data[loop_i].No]
               other == files[LastNeighbour.No]
           IN GWL_1 = IF LastSelected
                      THEN Restrict(full, Max({full[1].year, other[1].year}),
                                    Min({full[Len(full)].year,
                                         other[Len(other)].year}))
                      ELSE full

\* the script ran through a table of three stations: the pair of stations 1
\* and 3 was rejected both ways for its short common period, the pair of 2
\* and 3 was found inconsistent both ways, station 2 being classified on
\* years that its window with station 1 does not have
C16_Witness ==
    /\ main_pc = "done"
    /\ Len(data) = 3
    /\ <<1, 3>> \notin DOMAIN scored /\ <<3, 1>> \notin DOMAIN scored
    /\ <<1, 2>> \in DOMAIN scored /\ <<2, 1>> \in DOMAIN scored
    /\ <<2, 3>> \in DOMAIN scored /\ <<3, 2>> \in DOMAIN scored
    /\ scored[<<2, 3>>] = "inconsistent" /\ scored[<<3, 2>>] = "inconsistent"
    /\ scored[<<1, 2>>] = "consistent"
    /\ files[2][NumYears].year > files[1][NumYears].year

\* ================================================= the download pipeline
\* DownloadData.py and 0_DownloadData.py.  data is the station table, a
\* sequence of rows [No, dipped, logged, Elevation]; a source is what the
\* API answers for the link: [link, status, wellformed, items], link being
\* false for a null cell.  An item is a reading [date, has_value, value,
\* quality].  Readings are whole numbers such that every daily mean is a
\* whole number too; monthly and annual means are exact rationals
\* <<numerator, denominator>> in lowest terms.

RECURSIVE Gcd(_, _)
Gcd(a, b) == IF b = 0 THEN a ELSE Gcd(b, a % b)

\* a rational in lowest terms, with a positive denominator
Norm(a) ==
    LET g == Gcd(Abs(a[1]), a[2])
    IN IF a[1] = 0 THEN <<0, 1>> ELSE <<a[1] \div g, a[2] \div g>>

RatAdd(a, b) == Norm(<<a[1] * b[2] + b[1] * a[2], a[2] * b[2]>>)

RECURSIVE RatSum(_, _)
RatSum(r, n) == IF n = 0 THEN <<0, 1>> ELSE RatAdd(RatSum(r, n - 1), r[n])

\* the mean of a sequence of rationals; of none, NaN
RatMean(r) ==
    IF Len(r) = 0 THEN NaN
    ELSE LET sum == RatSum(r, Len(r)) IN Norm(<<sum[1], sum[2] * Len(r)>>)

\* the keys of a sequence of non-decreasing keys, each once
Distinct(keys) ==
    LET kept == SelectSeq([k \in 1..Len(keys) |->
                              <<keys[k], k = 1 \/ keys[k] # keys[k - 1]>>],
                          LAMBDA p : p[2])
    IN [k \in 1..Len(kept) |-> kept[k][1]] \o <<>>

ByDate(rows) == SortSeq(rows, LAMBDA a, b : a.date < b.date)

\* resample('D').mean().dropna(): one row a day, the mean of its values
DailyMean(rows) ==
    LET sorted == ByDate(rows)
        days == Distinct([k \in 1..Len(sorted) |-> sorted[k].date])
    IN AsSeq([d \in 1..Len(days) |->
           LET of == {k \in 1..Len(sorted) : sorted[k].date = days[d]}
           IN [date |-> days[d],
               value |-> SumTo([k \in 1..Len(sorted) |->
                                   IF k \in of THEN sorted[k].value ELSE 0],
                               Len(sorted)) \div Cardinality(of)]])

\* pd.DataFrame(): a frame with no rows, no columns and no datetime index
EmptyFrame == [indexed |-> FALSE, rows |-> <<>>]

\* the exception get_data raises for a source, "none" when it returns
GetDataException(src) ==
    IF src.status # 200 THEN "ConnectionError"
    ELSE IF ~src.wellformed THEN "JSONDecodeError"
    ELSE "none"

\* the frame get_data returns for a source that answers 200 with items
get_data(src) ==
    IF \A k \in 1..Len(src.items) : ~src.items[k].has_value
    THEN EmptyFrame
    ELSE [indexed |-> TRUE,
          rows |-> DailyMean(SelectSeq(src.items, LAMBDA r :
                       r.has_value /\ r.quality \in {"Estimated", "Good"}))]

\* df1 and df2 of a station: pd.DataFrame() where the link is null
SourceFrame(src) == IF src.link THEN get_data(src) ELSE EmptyFrame

\* the first exception the two calls of get_data raise for a station
SourceException(st) ==
    IF st.dipped.link /\ GetDataException(st.dipped) # "none"
    THEN GetDataException(st.dipped)
    ELSE IF st.logged.link /\ GetDataException(st.logged) # "none"
    THEN GetDataException(st.logged)
    ELSE "none"

\* pd.concat([df1, df2]): pd.DataFrame() operands are left out when the
\* other frame is not one; two of them give a frame without datetime index
Concat(df1, df2) ==
    [indexed |-> df1.indexed \/ df2.indexed, rows |-> df1.rows \o df2.rows]

\* resample('D') of a frame without datetime index raises TypeError
ResampleRaises(st) ==
    ~Concat(SourceFrame(st.dipped), SourceFrame(st.logged)).indexed

\* df_combined: the daily means of both sources, as depths below Elevation
df_combined(st) ==
    LET daily == DailyMean(Concat(SourceFrame(st.dipped),
                                  SourceFrame(st.logged)).rows)
    IN AsSeq([k \in 1..Len(daily) |->
                 [date |-> daily[k].date,
                  value |-> st.Elevation - daily[k].value]])

\* the first days of the months of a water year, 1 October being day 0
MonthStarts == <<0, 31, 61, 92, 123, 151, 182, 212, 243, 273, 304, 335>>

\* the month of a day, counted from the October of water year 0
MonthOf(d) ==
    12 * WaterYear(d)
        + Cardinality({m \in 1..12 : MonthStarts[m] <= d % DaysPerYear}) - 1

\* gd.resample('MS').mean().dropna(): rows [month, value]
MonthlyMeans(s) ==
    LET months == Distinct([k \in 1..Len(s) |-> MonthOf(s[k].date)])
    IN AsSeq([m \in 1..Len(months) |->
           LET of == {k \in 1..Len(s) : MonthOf(s[k].date) = months[m]}
           IN [month |-> months[m],
               value |-> Norm(<<SumTo([k \in 1..Len(s) |->
                                         IF k \in of THEN s[k].value ELSE 0],
                                      Len(s)),
                                Cardinality(of)>>)]])

\* gd_m.resample('YS-OCT').mean().dropna(): rows [year, value]
AnnualMeans(sm) ==
    LET years == Distinct([k \in 1..Len(sm) |-> sm[k].month \div 12])
    IN AsSeq([y \in 1..Len(years) |->
           LET of == SelectSeq(sm, LAMBDA r : r.month \div 12 = years[y])
           IN [year |-> years[y],
               value |-> RatMean([k \in 1..Len(of) |-> of[k].value])]])

\* np.mean(YMG['value'])
mean_depth(ymg) == RatMean([k \in 1..Len(ymg) |-> ymg[k].value])

\* ------------------------------------------------------------- inputs
\* if len(gd) <= 100
MinRows == 100
\* or len(YMG) <= 8
MinAnnual == 8

Reading(d, v, q) == [date |-> d, has_value |-> TRUE, value |-> v, quality |-> q]
NoLink == [link |-> FALSE, status |-> 0, wellformed |-> FALSE, items |-> <<>>]
Answer(items) ==
    [link |-> TRUE, status |-> 200, wellformed |-> TRUE, items |-> items]
HttpError ==
    [link |-> TRUE, status |-> 500, wellformed |-> FALSE, items |-> <<>>]
Malformed ==
    [link |-> TRUE, status |-> 200, wellformed |-> FALSE, items |-> <<>>]

\* the days of a year with a reading: 1 October, the extra days after it,
\* and the first days of the months up to the months-th
YearDays(months, extra) ==
    [k \in 1..(months + extra) |->
        IF k <= extra + 1 THEN k - 1 ELSE MonthStarts[k - extra]]

\* a record of levels 44, 40, 44, ... over the given number of years, each
\* with the days of YearDays, then tail further days; the reading at
\* position low, if any, is the level 0
Record(years, months, extra, tail, low) ==
    LET per == months + extra
        days == YearDays(months, extra)
        n == years * per
        last == (years - 1) * DaysPerYear + days[per]
    IN [k \in 1..(n + tail) |->
           Reading(IF k <= n
                   THEN ((k - 1) \div per) * DaysPerYear + days[((k - 1) % per) + 1]
                   ELSE last + (k - n),
                   IF k = low THEN 0 ELSE 40 + 4 * (k % 2),
                   "Good")]

\* the readings with those of water year y and later one year on, so that
\* water year y has none
WithGap(items, y) ==
    [k \in 1..Len(items) |->
        Reading(IF WaterYear(items[k].date) >= y
                THEN items[k].date + DaysPerYear ELSE items[k].date,
                items[k].value, items[k].quality)]

\* what a station of the table may be: its two sources and its elevation
StationInputs ==
    {   \* neither link
        [dipped |-> NoLink, logged |-> NoLink, Elevation |-> 100],
        \* a source that answers with an error status, a malformed payload,
        \* items without values, values of poor quality only
        [dipped |-> HttpError, logged |-> NoLink, Elevation |-> 100],
        [dipped |-> Answer(Record(1, 2, 0, 0, 0)), logged |-> Malformed,
         Elevation |-> 100],
        [dipped |-> Answer(<<[date |-> 0, has_value |-> FALSE, value |-> 0,
                             quality |-> "Good"]>>),
         logged |-> NoLink, Elevation |-> 100],
        [dipped |-> NoLink,
         logged |-> Answer(<<Reading(0, 40, "Suspect"), Reading(1, 44, "Unchecked")>>),
         Elevation |-> 100],
        \* a short record in both sources, with two readings on a day
        [dipped |-> Answer(<<Reading(0, 40, "Good"), Reading(0, 48, "Estimated"),
                             Reading(1, 40, "Suspect"), Reading(31, 40, "Good")>>),
         logged |-> Answer(<<Reading(0, 60, "Good"), Reading(1, 44, "Good")>>),
         Elevation |-> 100],
        \* 9 years and 108 rows; the same below the datum
        [dipped |-> Answer(Record(9, 12, 0, 0, 0)), logged |-> NoLink,
         Elevation |-> 100],
        [dipped |-> Answer(Record(9, 12, 0, 0, 0)), logged |-> NoLink,
         Elevation |-> 0],
        \* 8 years and 104 rows
        [dipped |-> NoLink, logged |-> Answer(Record(8, 12, 1, 0, 0)),
         Elevation |-> 100],
        \* 9 years and 100 rows, 101 rows, 101 rows of which the filter
        \* removes one
        [dipped |-> Answer(Record(9, 11, 0, 1, 0)), logged |-> NoLink,
         Elevation |-> 100],
        [dipped |-> Answer(Record(9, 11, 0, 2, 0)), logged |-> NoLink,
         Elevation |-> 100],
        [dipped |-> Answer(Record(9, 11, 0, 2, 50)), logged |-> NoLink,
         Elevation |-> 100],
        \* 9 years and 108 rows, with no reading in water year 4
        [dipped |-> Answer(WithGap(Record(9, 12, 0, 0, 0), 4)), logged |-> NoLink,
         Elevation |-> 100],
        \* three water years, the middle one with a single reading
        [dipped |-> Answer(<<Reading(0, 40, "Good"), Reading(1, 44, "Good"),
                             Reading(DaysPerYear, 40, "Good"),
                             Reading(2 * DaysPerYear + 1, 40, "Good"),
                             Reading(2 * DaysPerYear + 2, 44, "Good")>>),
         logged |-> NoLink, Elevation |-> 100]
    }

WithNo(st, no) ==
    [No |-> no, dipped |-> st.dipped, logged |-> st.logged,
     Elevation |-> st.Elevation]

\* the tables of two stations
StationBatches ==
    {<<WithNo(p[1], 1), WithNo(p[2], 2)>> : p \in StationInputs \X StationInputs}

DownloadVariants == {"DownloadData", "0_DownloadData"}

\* ---------------------------------------------------- download pipeline spec
\* csv_rows holds the rows written after the header row
InitDL ==
    /\ data \in StationBatches
    /\ variant \in DownloadVariants
    /\ files = <<>>
    /\ loop_i = 1
    /\ csv_rows = <<>>
    /\ main_pc = "stations"
    /\ exception = "none"
    /\ gd = <<>>
    /\ YMG = <<>>
    /\ result = NoResult
    /\ cls_pc = "idle"
    /\ QCIdle
    /\ PairIdle

InStationLoop == main_pc = "stations" /\ loop_i <= Len(data)

\* the row of a qualified station
StatRow(no, clean, annual) ==
    LET values == {clean[k].value : k \in 1..Len(clean)}
    IN <<no, Len(clean),
         Norm(<<SumTo([k \in 1..Len(clean) |-> clean[k].value], Len(clean)),
                Len(clean)>>),
         Max(values), Min(values),
         annual[1].year, annual[Len(annual)].year,
         annual[Len(annual)].year - annual[1].year + 1,
         Len(annual)>>

\* one pass of the loop over the stations of DownloadData.py that no
\* exception ends
ProcessStation ==
    /\ InStationLoop
    /\ variant = "DownloadData"
    /\ SourceException(data[loop_i]) = "none"
    /\ ~ResampleRaises(data[loop_i])
    /\ LET no == data[loop_i].No
           clean == quality_control(df_combined(data[loop_i]))
           annual == AnnualMeans(MonthlyMeans(clean))
           mean == mean_depth(annual)
       IN /\ gd' = clean
          /\ YMG' = annual
          /\ IF Len(clean) <= MinRows \/ Len(annual) <= MinAnnual
             THEN /\ csv_rows' = Append(csv_rows, <<no, "no enough data">>)
                  /\ files' = files
             ELSE IF mean[2] > 0 /\ mean[1] <= 0
             THEN /\ csv_rows' = Append(csv_rows, <<no, "negative mean depth">>)
                  /\ files' = files
             ELSE /\ csv_rows' = Append(csv_rows, StatRow(no, clean, annual))
                  /\ files' = (no :> annual) @@ files
    /\ loop_i' = loop_i + 1
    /\ main_pc' = IF loop_i = Len(data) THEN "done" ELSE "stations"
    /\ UNCHANGED <<data, exception, variant, result, cls_pc, qcVars, pairVars>>

\* get_data raises: nothing in the loop catches it and the script ends
SourceRaises ==
    /\ InStationLoop
    /\ SourceException(data[loop_i]) # "none"
    /\ main_pc' = "raised"
    /\ exception' = SourceException(data[loop_i])
    /\ UNCHANGED <<data, files, loop_i, csv_rows, gd>>
    /\ UNCHANGED <<clsVars, qcVars, pairVars>>

\* resample('D') raises on the frame concat gives for two pd.DataFrame()
CombineRaises ==
    /\ InStationLoop
    /\ SourceException(data[loop_i]) = "none"
    /\ ResampleRaises(data[loop_i])
    /\ main_pc' = "raised"
    /\ exception' = "TypeError"
    /\ UNCHANGED <<data, files, loop_i, csv_rows, gd>>
    /\ UNCHANGED <<clsVars, qcVars, pairVars>>

\* 0_DownloadData.py: len(gwl) names a variable the script never assigns
DecisionRaises ==
    /\ InStationLoop
    /\ variant = "0_DownloadData"
    /\ SourceException(data[loop_i]) = "none"
    /\ ~ResampleRaises(data[loop_i])
    /\ gd' = quality_control(df_combined(data[loop_i]))
    /\ YMG' = AnnualMeans(MonthlyMeans(quality_control(df_combined(data[loop_i]))))
    /\ main_pc' = "raised"
    /\ exception' = "NameError"
    /\ UNCHANGED <<data, files, loop_i, csv_rows>>
    /\ UNCHANGED <<variant, result, cls_pc, qcVars, pairVars>>

NextDL == ProcessStation \/ SourceRaises \/ CombineRaises \/ DecisionRaises

SpecDL == InitDL /\ [][NextDL]_vars

\* ============================================== claims: download pipeline
\* the station the loop worked on last, and whether that pass came to the
\* data-amount test
LastStation == IF main_pc = "raised" THEN loop_i ELSE loop_i - 1
ReachedDecision ==
    \/ main_pc = "raised" /\ exception = "NameError"
    \/ main_pc \in {"stations", "done"} /\ loop_i > 1

RowsOf(no) == SelectSeq(csv_rows, LAMBDA r : r[1] = no)

\* C7: in both variants, a station whose annual series has 8 points or fewer
\* or whose cleaned daily series has 100 rows or fewer gets the one row
\* 'no enough data' and no annual file; a station with 9 annual points or
\* more and more than 100 cleaned rows (and, in DownloadData.py, a positive
\* mean depth) gets one statistics row and its annual file.
C7_QualificationBoundary ==
    ReachedDecision =>
        LET no == data[LastStation].No
            rows == RowsOf(no)
            mean == mean_depth(YMG)
        IN /\ (Len(YMG) <= 8 \/ Len(gd) <= 100) =>
                 /\ Len(rows) = 1
                 /\ Len(rows[1]) = 2
                 /\ rows[1][2] = "no enough data"
                 /\ no \notin DOMAIN files
           /\ (/\ Len(YMG) >= 9
               /\ Len(gd) > 100
               /\ variant = "DownloadData" => mean[2] > 0 /\ mean[1] > 0) =>
                 /\ Len(rows) = 1
                 /\ Len(rows[1]) = 9
                 /\ rows[1][2] = Len(gd)
                 /\ rows[1][9] = Len(YMG)
                 /\ no \in DOMAIN files
                 /\ files[no] = YMG

\* C8: no failure of a data source ends the script at its station, and at
\* the end of the batch every station has its row.
C8_FailureIsolated ==
    /\ main_pc = "raised" => SourceException(data[loop_i]) = "none"
    /\ main_pc = "done" => \A k \in 1..Len(data) : Len(RowsOf(data[k].No)) = 1

\* the retained readings of a source: those with a value and the quality
\* Good or Estimated; of a null link, none
Retained(src) ==
    IF src.link
    THEN SelectSeq(src.items, LAMBDA r :
             r.has_value /\ r.quality \in {"Estimated", "Good"})
    ELSE <<>>

\* the retained readings of day d in both streams of a station
ReadingsOfDay(st, d) ==
    SelectSeq(Retained(st.dipped) \o Retained(st.logged), LAMBDA r : r.date = d)

\* C12: for a station with a dipped and a logged stream, the value of every
\* day of the daily series is the depth of the arithmetic mean of all the
\* retained readings of that day in both streams together (sum over count),
\* and a day has a row only if it has a retained reading.
C12_PooledDailyMean ==
    (ReachedDecision /\ data[LastStation].dipped.link
                     /\ data[LastStation].logged.link) =>
        \A k \in 1..Len(gd) :
            LET st == data[LastStation]
                of == ReadingsOfDay(st, gd[k].date)
            IN /\ Len(of) > 0
               /\ (st.Elevation - gd[k].value) * Len(of)
                      = SumTo([n \in 1..Len(of) |-> of[n].value], Len(of))

\* the water years of an annual series, in order
YearsOf(ymg) == [k \in 1..Len(ymg) |-> ymg[k].year]

StrictlyIncreasing(f) == \A k \in 1..(Len(f) - 1) : f[k] < f[k + 1]

\* no water year is missing between the first and the last entry
ConsecutiveByYear(ymg) ==
    \A k \in 1..(Len(ymg) - 1) : ymg[k + 1].year = ymg[k].year + 1

\* C13 as stated: the annual series of the station at hand has strictly
\* increasing (hence unique) water years that are consecutive by year, and
\* its sequence field is strictly increasing and starts at 1.
C13_ConsecutiveYears ==
    ReachedDecision =>
        /\ StrictlyIncreasing(YearsOf(YMG))
        /\ ConsecutiveByYear(YMG)
        /\ StrictlyIncreasing(sequence(YMG))
        /\ Len(YMG) > 0 => sequence(YMG)[1] = 1

\* C13 as amended: the annual series has one entry for each water year in
\* which the cleaned daily series has a row and none for any other year,
\* in strictly increasing order (a year without rows is absent, so the
\* years need not be consecutive); its sequence field is year - first
\* year + 1, strictly increasing and starting at 1.
C13_IncreasingYearsWithGaps ==
    ReachedDecision =>
        /\ StrictlyIncreasing(YearsOf(YMG))
        /\ {YMG[k].year : k \in 1..Len(YMG)}
              = {WaterYear(gd[k].date) : k \in 1..Len(gd)}
        /\ StrictlyIncreasing(sequence(YMG))
        /\ Len(YMG) > 0 => sequence(YMG)[1] = 1
        /\ \A k \in 1..Len(YMG) :
               sequence(YMG)[k] = YMG[k].year - YMG[1].year + 1

\* the annual series of a qualified station was written to its file with a
\* water year missing between its first and its last entry
C13_Witness ==
    /\ ReachedDecision
    /\ data[LastStation].No \in DOMAIN files
    /\ files[data[LastStation].No] = YMG
    /\ ~ConsecutiveByYear(YMG)

\* a station whose sources answer and give no retained reading: no link at
\* all, items without value, or values of poor quality only
EmptyStation(st) ==
    /\ SourceException(st) = "none"
    /\ Retained(st.dipped) = <<>>
    /\ Retained(st.logged) = <<>>

\* C14: no exception ends the script at an empty station, and the pass over
\* an empty station leaves an empty daily and annual series and the one row
\* 'no enough data' for it.
C14_EmptyStationGetsSentinel ==
    /\ (main_pc = "raised") => ~EmptyStation(data[loop_i])
    /\ (main_pc \in {"stations", "done"} /\ loop_i > 1
                                          /\ EmptyStation(data[loop_i - 1])) =>
           /\ gd = <<>>
           /\ YMG = <<>>
           /\ RowsOf(data[loop_i - 1].No)
                 = <<(<<data[loop_i - 1].No, "no enough data">>)>>

====
